---- MODULE Spec2Model ----
(***************************************************************************)
(* The crab monitor thread (lib/crab/monitor.py, class CrabMonitor): the   *)
(* bulk load, the poll cycle, event ingestion, the lateness check, the     *)
(* job-set reconciliation, the deadline scans and the long-poll reader.    *)
(* Time is counted in minutes.  The storage backend, CrabStatus, CrabEvent *)
(* and CrabSchedule are collaborators whose code is not part of the        *)
(* sources at hand; they are modelled at their interface.                  *)
(***************************************************************************)
EXTENDS Integers, Sequences, FiniteSets, TLC

VARIABLES
    store,      \* the storage backend: jobs, events, availability
    now,        \* the wall clock, in minutes
    self,       \* the CrabMonitor instance attributes
    run,        \* the local variables and position of CrabMonitor.run
    readers,    \* the threads calling wait_for_event_since / get_job_status
    ingested    \* history variable: per tracked job, the events handed to
                \* _process_event since the job's record was created

vars == <<store, now, self, run, readers, ingested>>

----------------------------------------------------------------------------
(* Bounds of the model. *)

MaxTime == 6        \* SpecTimeout: the clock stops here
MaxJump == 2        \* minutes the clock may advance at once
MaxWatch == 2       \* SpecTimeout: events runners report at most
LateTime == 3       \* SpecLate, SpecSteady: the clock stops here
MaxStarts == 1      \* SpecLate, SpecSteady: events runners report at most
MaxPrefill == 12    \* SpecHist: events of earlier runs in the store at most
MaxReports == 2     \* SpecHist: events runners report at most
MaxIngest == 1      \* SpecIngest: events runners report at most
IngestTime == 1     \* SpecIngest: the clock stops here
MaxWait == 1        \* SpecWait: events runners report at most
MaxAskId == 1       \* SpecWait: the largest id a reader passes
MaxEvents == 1      \* Spec: events runners report at most
Horizon == 1        \* Spec: the clock stops here
MaxInstalled == 1   \* Spec: the largest installed timestamp
JobsTime == 1       \* SpecJobs: the clock stops here
MaxJobEvents == 1   \* SpecJobs: events runners report at most
MaxHandover == 2     \* events reported around the bulk load
EditTime == 1        \* SpecEdit: the clock stops here
MaxEditEvents == 1   \* SpecEdit: events runners report at most

(* Program constants. *)

HISTORY_COUNT == 10
Graceperiod == 2
JobTimeout == 5
ReplayFactor == 4
MinutesPerDay == 1440

JobIds == {1, 2}
ReaderIds == {1}

None == "None"

----------------------------------------------------------------------------
(* Python dicts keyed by job id, as functions on a subset of JobIds. *)

EmptyDict == [k \in {} |-> None]

Has(d, k) == k \in DOMAIN d

Put(d, k, v) == [x \in (DOMAIN d) \cup {k} |-> IF x = k THEN v ELSE d[x]]

Del(d, k) == [x \in (DOMAIN d) \ {k} |-> d[x]]

(* Lists. *)

Reverse(s) == [i \in 1..Len(s) |-> s[Len(s) + 1 - i]]

Take(s, n) == IF Len(s) <= n THEN s ELSE SubSeq(s, 1, n)

RECURSIVE SortedSeq(_)
SortedSeq(S) ==
    IF S = {} THEN <<>>
    ELSE LET m == CHOOSE x \in S : \A y \in S : x <= y
         IN  <<m>> \o SortedSeq(S \ {m})

----------------------------------------------------------------------------
(* CrabEvent and CrabStatus. *)

START == "START"
WARN == "WARN"
FINISH == "FINISH"
EventTypes == {START, WARN, FINISH}

SUCCESS == "SUCCESS"
FAIL == "FAIL"
OK == "OK"
LATE == "LATE"
MISSED == "MISSED"
TIMEOUT == "TIMEOUT"
Statuses == {OK, SUCCESS, FAIL, LATE, MISSED, TIMEOUT}

(* The four status categories: trivial, ok, warning, error.  A trivial
   status is routine noise; the ok category is normal completion, and a
   record showing only noise counts as ok too; LATE and MISSED are the
   warnings; everything else is an error. *)
is_trivial(s) == s = OK

is_ok(s) == s = SUCCESS \/ is_trivial(s)

is_warning(s) == s \in {LATE, MISSED}

is_error(s) == ~(is_ok(s) \/ is_warning(s))

----------------------------------------------------------------------------
(* CrabSchedule: a recurrence is a crontab time field; match() tells whether
   an instant is one of its occurrences. *)

EveryMinute == "* * * * *"
EveryFourth == "*/4 * * * *"
BadTime == "every now and then"
ValidTimes == {EveryMinute, EveryFourth}

parses(time) == time \in ValidTimes

match(time, t) == IF time = EveryMinute THEN TRUE ELSE t % 4 = 0

----------------------------------------------------------------------------
(* The storage backend.  store.jobs holds the job rows by id (a deleted job
   keeps its row, marked); store.events is the event log in insertion
   order, each event type numbering its events 1, 2, 3, ...; store.up tells
   whether the backend accepts writes; store.reported counts the events
   that runners have reported. *)

JobRow(installed, time, deleted) ==
    [installed |-> installed, time |-> time, deleted |-> deleted]

(* The listing: the jobs that are not deleted, in id order. *)
get_jobs(st) ==
    LET live == {id \in DOMAIN st.jobs : ~st.jobs[id].deleted}
        ids == SortedSeq(live)
    IN  [i \in 1..Len(ids) |->
            [id |-> ids[i], installed |-> st.jobs[ids[i]].installed]]

(* get_job_info(id) is None for an id without a row. *)
job_info_is_none(st, id) == ~Has(st.jobs, id)

get_job_info(st, id) == st.jobs[id]

EventsOfType(st, type) == SelectSeq(st.events, LAMBDA e : e.type = type)

NextId(st, type) == Len(EventsOfType(st, type)) + 1

NewEvent(st, jobid, type, status, t) ==
    [id |-> NextId(st, type), jobid |-> jobid, type |-> type,
     status |-> status, datetime |-> t]

(* The newest `limit` events of a job, newest first. *)
get_job_events(st, jobid, limit) ==
    Take(Reverse(SelectSeq(st.events, LAMBDA e : e.jobid = jobid)), limit)

get_events_since(st, startid, warnid, finishid) ==
    SelectSeq(st.events, LAMBDA e :
        \/ e.type = START /\ e.id > startid
        \/ e.type = WARN /\ e.id > warnid
        \/ e.type = FINISH /\ e.id > finishid)

(* log_warning raises its CrabError when the backend does not accept the
   write; otherwise the warning is appended, stamped with the time of the
   write. *)
log_warning_fails(st) == ~st.up

log_warning(st, id, status, t) ==
    [st EXCEPT !.events = Append(@, NewEvent(st, id, WARN, status, t))]

----------------------------------------------------------------------------
(* CrabMonitor: the instance data after __init__. *)

NoTime == -1    \* last_time = None

SetKey(d, k, v) == [f \in (DOMAIN d) \cup {k} |-> IF f = k THEN v ELSE d[f]]

HasKey(d, k) == k \in DOMAIN d

NewMonitor ==
    [sched |-> EmptyDict, status |-> EmptyDict, status_ready |-> FALSE,
     config |-> EmptyDict, last_start |-> EmptyDict, timeout |-> EmptyDict,
     miss_timeout |-> EmptyDict, max_startid |-> 0, max_warnid |-> 0,
     max_finishid |-> 0, last_time |-> NoTime, num_warning |-> 0,
     num_error |-> 0]

(* JobDeleted raised only for a job without a row. *)
job_deleted_if_no_row(st, id_) == job_info_is_none(st, id_)

(* _initialize_job raises JobDeleted for a job without a row or with a
   deleted row, before it touches anything. *)
JobDeleted(st, id_) == job_info_is_none(st, id_) \/ get_job_info(st, id_).deleted

(* _schedule_job dropping the job's deadlines as well. *)
schedule_job_drops_deadlines(s, st, id_) ==
    LET s1 == [s EXCEPT !.status[id_] = SetKey(@, "scheduled", FALSE),
                        !.timeout = Del(@, id_),
                        !.miss_timeout = Del(@, id_)]
    IN  IF ~job_info_is_none(st, id_) /\ get_job_info(st, id_).time # None
        THEN IF parses(get_job_info(st, id_).time)
             THEN [s1 EXCEPT
                     !.sched = Put(@, id_, get_job_info(st, id_).time),
                     !.status[id_] = SetKey(@, "scheduled", TRUE)]
             ELSE s1
        ELSE s1

(* _schedule_job: the scheduled flag is cleared; a time field that parses
   gives the job a schedule and sets the flag again.  A missing row, a
   missing time field or one that does not parse leaves self.sched as it
   was. *)
schedule_job(s, st, id_) ==
    LET s1 == [s EXCEPT !.status[id_] = SetKey(@, "scheduled", FALSE)]
    IN  IF ~job_info_is_none(st, id_) /\ get_job_info(st, id_).time # None
        THEN IF parses(get_job_info(st, id_).time)
             THEN [s1 EXCEPT
                     !.sched = Put(@, id_, get_job_info(st, id_).time),
                     !.status[id_] = SetKey(@, "scheduled", TRUE)]
             ELSE s1
        ELSE s1

(* _initialize_job, for a job that is not JobDeleted. *)
initialize_job(s, st, id_) ==
    LET s1 == [s EXCEPT !.status = Put(@, id_,
                  [status |-> None, running |-> FALSE, history |-> <<>>,
                   installed |-> get_job_info(st, id_).installed])]
        s2 == schedule_job(s1, st, id_)
    IN  [s2 EXCEPT !.config = Put(@, id_,
            [graceperiod |-> Graceperiod, timeout |-> JobTimeout])]

(* _remove_job forgetting the two deadline maps. *)
remove_job_keeps_deadlines(s, jobid) ==
    IF ~Has(s.status, jobid) THEN s
    ELSE [s EXCEPT !.status = Del(@, jobid),
                   !.config = Del(@, jobid),
                   !.sched = Del(@, jobid),
                   !.last_start = Del(@, jobid)]

(* _remove_job: a job without a status record raises KeyError at the first
   del, which is caught, and nothing is removed. *)
remove_job(s, jobid) ==
    IF ~Has(s.status, jobid) THEN s
    ELSE [s EXCEPT !.status = Del(@, jobid),
                   !.config = Del(@, jobid),
                   !.sched = Del(@, jobid),
                   !.last_start = Del(@, jobid),
                   !.timeout = Del(@, jobid),
                   !.miss_timeout = Del(@, jobid)]

(* _update_max_id_values advancing max_startid for events of any type. *)
max_id_any_type(s, event) ==
    [s EXCEPT
        !.max_startid = IF event.id > @ THEN event.id ELSE @,
        !.max_warnid = IF event.type = WARN /\ event.id > @
                       THEN event.id ELSE @,
        !.max_finishid = IF event.type = FINISH /\ event.id > @
                         THEN event.id ELSE @]

update_max_id_values(s, event) ==
    [s EXCEPT
        !.max_startid = IF event.type = START /\ event.id > @
                        THEN event.id ELSE @,
        !.max_warnid = IF event.type = WARN /\ event.id > @
                       THEN event.id ELSE @,
        !.max_finishid = IF event.type = FINISH /\ event.id > @
                         THEN event.id ELSE @]

(* overwrite with a warning replacing an error status. *)
overwrite_warning_wins(prevstatus, status) ==
    IF is_trivial(status)
    THEN IF prevstatus = None \/ is_ok(prevstatus) THEN status ELSE prevstatus
    ELSE status

(* The status a job shows after an event with status `status`, given the
   status `prevstatus` it showed before (lines 268-283). *)
overwrite(prevstatus, status) ==
    IF is_trivial(status)
    THEN IF prevstatus = None \/ is_ok(prevstatus) THEN status ELSE prevstatus
    ELSE IF is_warning(status)
    THEN IF prevstatus = None \/ ~is_error(prevstatus)
         THEN status ELSE prevstatus
    ELSE status

(* push_history evicting once the list is over capacity. *)
push_history_late_evict(history, status) ==
    IF ~is_trivial(status)
    THEN Append(IF Len(history) > HISTORY_COUNT THEN Tail(history)
                ELSE history, status)
    ELSE history

(* push_history evicting the newest entry. *)
push_history_drop_newest(history, status) ==
    IF ~is_trivial(status)
    THEN Append(IF Len(history) >= HISTORY_COUNT
                THEN SubSeq(history, 1, Len(history) - 1)
                ELSE history, status)
    ELSE history

(* The history list after an event with status `status` (lines 285-289). *)
push_history(history, status) ==
    IF ~is_trivial(status)
    THEN Append(IF Len(history) >= HISTORY_COUNT THEN Tail(history)
                ELSE history, status)
    ELSE history

(* start_effect setting the deadline without the running flag. *)
start_effect_not_running(s, jobid, datetime_) ==
    [s EXCEPT !.last_start = Put(@, jobid, datetime_),
              !.timeout = Put(@, jobid, datetime_ + s.config[jobid].timeout),
              !.miss_timeout = Del(@, jobid)]

(* start_effect leaving the miss_timeout entry in place. *)
start_effect_keeps_miss(s, jobid, datetime_) ==
    [s EXCEPT !.status[jobid].running = TRUE,
              !.last_start = Put(@, jobid, datetime_),
              !.timeout = Put(@, jobid, datetime_ + s.config[jobid].timeout)]

(* Lines 291-296. *)
start_effect(s, jobid, datetime_) ==
    [s EXCEPT !.status[jobid].running = TRUE,
              !.last_start = Put(@, jobid, datetime_),
              !.timeout = Put(@, jobid, datetime_ + s.config[jobid].timeout),
              !.miss_timeout = Del(@, jobid)]

(* finish_effect leaving the timeout entry in place. *)
finish_effect_keeps_timeout(s, jobid) ==
    [s EXCEPT !.status[jobid].running = FALSE]

(* Lines 298-302. *)
finish_effect(s, jobid) ==
    [s EXCEPT !.status[jobid].running = FALSE,
              !.timeout = Del(@, jobid)]

process_event(s, jobid, event) ==
    LET s1 == IF event.status # None
              THEN [s EXCEPT
                      !.status[jobid].status = overwrite(@, event.status),
                      !.status[jobid].history = push_history(@, event.status)]
              ELSE s
        s2 == IF event.type = START
              THEN start_effect(s1, jobid, event.datetime) ELSE s1
    IN  IF event.type = FINISH \/ event.status = TIMEOUT
        THEN finish_effect(s2, jobid) ELSE s2

CountSuccess(history) ==
    Cardinality({i \in 1..Len(history) : history[i] = SUCCESS})

reliability_of(history) ==
    IF Len(history) = 0 THEN 0
    ELSE (100 * CountSuccess(history)) \div Len(history)

compute_reliability(s, jobid) ==
    [s EXCEPT !.status[jobid] =
        SetKey(@, "reliability", reliability_of(@.history))]

(* count_warning counting every status that is not ok. *)
count_warning_not_ok(s) ==
    Cardinality({id \in DOMAIN s.status :
        LET jobstatus == s.status[id].status
        IN  ~(jobstatus = None \/ is_ok(jobstatus))})

(* The recount of lines 109-118. *)
count_warning(s) ==
    Cardinality({id \in DOMAIN s.status :
        LET jobstatus == s.status[id].status
        IN  ~(jobstatus = None \/ is_ok(jobstatus)) /\ is_warning(jobstatus)})

count_error(s) ==
    Cardinality({id \in DOMAIN s.status :
        LET jobstatus == s.status[id].status
        IN  ~(jobstatus = None \/ is_ok(jobstatus)) /\ ~is_warning(jobstatus)})

(* strftime('%H%M'): the minute of the day. *)
time_stamp(datetime_) == datetime_ % MinutesPerDay

(* minute_changed taking every poll cycle for a new minute. *)
minute_changed_every_cycle(s, datetime_) == TRUE

(* Line 131. *)
minute_changed(s, datetime_) ==
    s.last_time = NoTime \/ time_stamp(datetime_) # s.last_time

(* The condition under which the lateness check flags a scheduled job. *)
is_late(s, id, datetime_) ==
    /\ match(s.sched[id], datetime_)
    /\ \/ ~Has(s.last_start, id)
       \/ s.last_start[id] + s.config[id].graceperiod < datetime_

(* _write_warning: a CrabError of the backend is caught and printed. *)
write_warning(st, id_, status, t) ==
    IF log_warning_fails(st) THEN st ELSE log_warning(st, id_, status, t)

----------------------------------------------------------------------------
(* The loops of run() that write warnings.  Each works on the pair of the
   instance data and the backend, job by job in id order. *)

Pair(s, st) == [self |-> s, store |-> st]

(* Lines 132-138: the lateness check over self.sched. *)
RECURSIVE late_check(_, _, _, _)
late_check(p, ids, datetime_, t) ==
    IF ids = <<>> THEN p
    ELSE LET id == Head(ids)
             q == IF is_late(p.self, id, datetime_)
                  THEN Pair([p.self EXCEPT !.miss_timeout = Put(@, id,
                                datetime_ + p.self.config[id].graceperiod)],
                            write_warning(p.store, id, LATE, t))
                  ELSE p
         IN  late_check(q, Tail(ids), datetime_, t)

(* Lines 173-176: the scan of self.miss_timeout. *)
RECURSIVE expire_miss_timeout(_, _, _, _)
expire_miss_timeout(p, ids, datetime_, t) ==
    IF ids = <<>> THEN p
    ELSE LET id == Head(ids)
             q == IF p.self.miss_timeout[id] < datetime_
                  THEN Pair([p.self EXCEPT !.miss_timeout = Del(@, id)],
                            write_warning(p.store, id, MISSED, t))
                  ELSE p
         IN  expire_miss_timeout(q, Tail(ids), datetime_, t)

(* timeout_passed firing in the minute of the deadline. *)
timeout_passed_at_deadline(s, id, datetime_) == s.timeout[id] <= datetime_

(* Line 179. *)
timeout_passed(s, id, datetime_) == s.timeout[id] < datetime_

(* Lines 178-181: the scan of self.timeout. *)
RECURSIVE expire_timeout(_, _, _, _)
expire_timeout(p, ids, datetime_, t) ==
    IF ids = <<>> THEN p
    ELSE LET id == Head(ids)
             q == IF timeout_passed(p.self, id, datetime_)
                  THEN Pair([p.self EXCEPT !.timeout = Del(@, id)],
                            write_warning(p.store, id, TIMEOUT, t))
                  ELSE p
         IN  expire_timeout(q, Tail(ids), datetime_, t)

(* Lines 165-166: the removal of the jobs the listing no longer holds. *)
RECURSIVE remove_jobs(_, _)
remove_jobs(s, ids) ==
    IF ids = <<>> THEN s
    ELSE remove_jobs(remove_job(s, Head(ids)), Tail(ids))

RECURSIVE DelAll(_, _)
DelAll(d, ids) == IF ids = <<>> THEN d ELSE DelAll(Del(d, Head(ids)), Tail(ids))

----------------------------------------------------------------------------
(* CrabMonitor.run, step by step.  run.pc is the position; run.jobs,
   run.jobid, run.events, run.datetime_ and run.currentjobs are the local
   variables of the same names, run.i the position in run.events. *)

(* The watermarks and counters, which a reader is handed by value. *)
cycle_view(s) ==
    [startid |-> s.max_startid, warnid |-> s.max_warnid,
     finishid |-> s.max_finishid, numwarning |-> s.num_warning,
     numerror |-> s.num_error]

(* run.before is a history field: the watermarks and counters as the poll
   cycle under way found them, and between two cycles as they are.
   run.listing is one too: the ids of the listing that the reconciliation
   pass under way fetched. *)
NewRun ==
    [pc |-> "start", jobs |-> <<>>, jobid |-> 0, events |-> <<>>, i |-> 0,
     datetime_ |-> 0, currentjobs |-> {}, before |-> cycle_view(NewMonitor),
     listing |-> {}]

(* Line 59. *)
LoadJobs ==
    /\ run.pc = "start"
    /\ run' = [run EXCEPT !.pc = "load_job", !.jobs = get_jobs(store)]
    /\ UNCHANGED <<store, now, self, readers, ingested>>

(* Lines 61-68 and 78-81: the next job of the bulk load is initialized and
   its recent events are fetched, oldest first; a vanished job is skipped;
   after the last job status_ready is set. *)
LoadJob ==
    /\ run.pc = "load_job"
    /\ IF run.jobs = <<>>
       THEN /\ self' = [self EXCEPT !.status_ready = TRUE]
            /\ run' = [run EXCEPT !.pc = "sleep"]
            /\ UNCHANGED ingested
       ELSE LET jobid == Head(run.jobs).id
            IN  IF JobDeleted(store, jobid)
                THEN /\ run' = [run EXCEPT !.jobs = Tail(@)]
                     /\ UNCHANGED <<self, ingested>>
                ELSE /\ self' = initialize_job(self, store, jobid)
                     /\ ingested' = Put(ingested, jobid, <<>>)
                     /\ run' = [run EXCEPT
                            !.pc = "load_event",
                            !.jobid = jobid,
                            !.events = Reverse(get_job_events(store, jobid,
                                           ReplayFactor * HISTORY_COUNT))]
    /\ UNCHANGED <<store, now, readers>>

(* Lines 72-76: one event of the job is replayed; after the last one the
   job's reliability is computed. *)
LoadEvent ==
    /\ run.pc = "load_event"
    /\ IF run.events = <<>>
       THEN /\ self' = compute_reliability(self, run.jobid)
            /\ run' = [run EXCEPT !.pc = "load_job", !.jobs = Tail(@)]
            /\ UNCHANGED ingested
       ELSE LET event == Head(run.events)
            IN  /\ self' = process_event(update_max_id_values(self, event),
                                         run.jobid, event)
                /\ ingested' = [ingested EXCEPT
                                   ![run.jobid] = Append(@, event)]
                /\ run' = [run EXCEPT !.events = Tail(@)]
    /\ UNCHANGED <<store, now, readers>>

(* Lines 84-91: after the sleep the clock is read and the new events are
   fetched. *)
Poll ==
    /\ run.pc = "sleep"
    /\ LET events == get_events_since(store, self.max_startid,
                                      self.max_warnid, self.max_finishid)
       IN  run' = [run EXCEPT
                      !.pc = IF events = <<>> THEN "count_reset" ELSE "ev_max",
                      !.datetime_ = now, !.events = events, !.i = 1,
                      !.before = cycle_view(self)]
    /\ UNCHANGED <<store, now, self, readers, ingested>>

(* Line 94. *)
EventMax ==
    /\ run.pc = "ev_max"
    /\ self' = update_max_id_values(self, run.events[run.i])
    /\ run' = [run EXCEPT !.pc = "ev_proc", !.jobid = run.events[run.i].jobid]
    /\ UNCHANGED <<store, now, readers, ingested>>

NextEvent(r) ==
    IF r.i < Len(r.events)
    THEN [r EXCEPT !.pc = "ev_max", !.i = @ + 1]
    ELSE [r EXCEPT !.pc = "count_reset"]

(* Lines 96-100 and 106-107: the job's record is created if the job is not
   tracked, and the event is processed; an event of a vanished job is
   skipped. *)
EventProcess ==
    /\ run.pc = "ev_proc"
    /\ LET event == run.events[run.i]
           jobid == run.jobid
           fresh == ~Has(self.status, jobid)
       IN  IF fresh /\ JobDeleted(store, jobid)
           THEN /\ run' = NextEvent(run)
                /\ UNCHANGED <<self, ingested>>
           ELSE /\ self' = process_event(
                        IF fresh THEN initialize_job(self, store, jobid)
                        ELSE self, jobid, event)
                /\ ingested' = Put(ingested, jobid,
                        Append(IF fresh THEN <<>> ELSE ingested[jobid],
                               event))
                /\ run' = [run EXCEPT !.pc = "ev_rel"]
    /\ UNCHANGED <<store, now, readers>>

(* Line 101. *)
EventReliability ==
    /\ run.pc = "ev_rel"
    /\ self' = compute_reliability(self, run.jobid)
    /\ run' = NextEvent(run)
    /\ UNCHANGED <<store, now, readers, ingested>>

(* Lines 109-110. *)
CountReset ==
    /\ run.pc = "count_reset"
    /\ self' = [self EXCEPT !.num_error = 0, !.num_warning = 0]
    /\ run' = [run EXCEPT !.pc = "count"]
    /\ UNCHANGED <<store, now, readers, ingested>>

(* Lines 111-118. *)
Count ==
    /\ run.pc = "count"
    /\ self' = [self EXCEPT !.num_warning = count_warning(self),
                            !.num_error = count_error(self)]
    /\ run' = [run EXCEPT !.pc = "notify"]
    /\ UNCHANGED <<store, now, readers, ingested>>

(* Lines 120-122: with the lock of new_event, notify_all wakes every thread
   waiting on it. *)
Notify ==
    /\ run.pc = "notify"
    /\ run.events # <<>> => \A r \in ReaderIds : readers[r].pc # "locked"
    /\ readers' = IF run.events # <<>>
                  THEN [r \in ReaderIds |->
                           IF readers[r].pc = "waiting"
                           THEN [readers[r] EXCEPT !.pc = "return"]
                           ELSE readers[r]]
                  ELSE readers
    /\ run' = [run EXCEPT !.pc = "late", !.events = <<>>, !.i = 0]
    /\ UNCHANGED <<store, now, self, ingested>>

(* Lines 129-138: in a minute other than that of the previous cycle, the
   lateness check. *)
Late ==
    /\ run.pc = "late"
    /\ IF minute_changed(self, run.datetime_)
       THEN LET p == late_check(Pair(self, store),
                         SortedSeq(DOMAIN self.sched), run.datetime_, now)
            IN  /\ self' = p.self
                /\ store' = p.store
                /\ run' = [run EXCEPT !.pc = "diff_list"]
       ELSE /\ self' = [self EXCEPT !.last_time = time_stamp(run.datetime_)]
            /\ run' = [run EXCEPT !.pc = "expire_miss"]
            /\ UNCHANGED store
    /\ UNCHANGED <<now, readers, ingested>>

(* Lines 141-142. *)
DiffList ==
    /\ run.pc = "diff_list"
    /\ run' = [run EXCEPT !.pc = "diff_job",
                          !.currentjobs = DOMAIN self.status,
                          !.jobs = get_jobs(store),
                          !.listing = {get_jobs(store)[i].id :
                                          i \in 1..Len(get_jobs(store))}]
    /\ UNCHANGED <<store, now, self, readers, ingested>>

(* Lines 143-168: one job of the listing is compared with the tracked
   jobs; after the last one the jobs left over are removed and last_time
   is set. *)
DiffJob ==
    /\ run.pc = "diff_job"
    /\ IF run.jobs = <<>>
       THEN LET gone == SortedSeq(run.currentjobs)
            IN  /\ self' = [remove_jobs(self, gone) EXCEPT
                               !.last_time = time_stamp(run.datetime_)]
                /\ ingested' = DelAll(ingested, gone)
                /\ run' = [run EXCEPT !.pc = "expire_miss",
                                      !.currentjobs = {}, !.listing = {}]
       ELSE LET job == Head(run.jobs)
                jobid == job.id
            IN  IF jobid \in run.currentjobs
                THEN /\ self' =
                          IF job.installed > self.status[jobid].installed
                          THEN [schedule_job(self, store, jobid) EXCEPT
                                   !.status[jobid].installed = job.installed]
                          ELSE self
                     /\ run' = [run EXCEPT !.jobs = Tail(@),
                                           !.currentjobs = @ \ {jobid}]
                     /\ UNCHANGED ingested
                ELSE /\ IF JobDeleted(store, jobid)
                        THEN UNCHANGED <<self, ingested>>
                        ELSE /\ self' = initialize_job(self, store, jobid)
                             /\ ingested' = Put(ingested, jobid, <<>>)
                     /\ run' = [run EXCEPT !.jobs = Tail(@)]
    /\ UNCHANGED <<store, now, readers>>

(* Lines 173-176. *)
ExpireMiss ==
    /\ run.pc = "expire_miss"
    /\ LET p == expire_miss_timeout(Pair(self, store),
                    SortedSeq(DOMAIN self.miss_timeout), run.datetime_, now)
       IN  /\ self' = p.self
           /\ store' = p.store
    /\ run' = [run EXCEPT !.pc = "expire_timeout"]
    /\ UNCHANGED <<now, readers, ingested>>

(* Lines 178-181. *)
ExpireTimeout ==
    /\ run.pc = "expire_timeout"
    /\ LET p == expire_timeout(Pair(self, store),
                    SortedSeq(DOMAIN self.timeout), run.datetime_, now)
       IN  /\ self' = p.self
           /\ store' = p.store
           /\ run' = [run EXCEPT !.pc = "sleep",
                                 !.before = cycle_view(p.self)]
    /\ UNCHANGED <<now, readers, ingested>>

Monitor ==
    \/ LoadJobs \/ LoadJob \/ LoadEvent
    \/ Poll \/ EventMax \/ EventProcess \/ EventReliability
    \/ CountReset \/ Count \/ Notify
    \/ Late \/ DiffList \/ DiffJob
    \/ ExpireMiss \/ ExpireTimeout

----------------------------------------------------------------------------
(* The environment: the clock, the job runners, the crontab imports and the
   availability of the backend. *)

Min(a, b) == IF a < b THEN a ELSE b

(* The clock advances while the monitor sleeps, by up to `jump` minutes. *)
Tick(limit, jump) ==
    /\ run.pc = "sleep"
    /\ now < limit
    /\ \E t \in (now + 1)..Min(now + jump, limit) : now' = t
    /\ UNCHANGED <<store, self, run, readers, ingested>>

(* The clock advances by one minute, and only after a poll cycle has run in
   the current minute. *)
TickSteady(limit) ==
    /\ self.last_time = time_stamp(now)
    /\ Tick(limit, 1)

(* The monitor looks at the event log in LoadJob and Poll, at the job rows
   in LoadJobs, LoadJob, EventProcess, DiffList and DiffJob, and at the
   availability of the backend in Late, ExpireMiss and ExpireTimeout.  A
   change of the store takes effect at the monitor's next look, so each is
   let happen right before one. *)
EventReadPoints == {"start", "load_job", "sleep"}

JobReadPoints == {"start", "load_job", "sleep", "ev_proc", "diff_list", "diff_job"}

WritePoints == {"late", "expire_miss", "expire_timeout"}

(* A runner reports an event of a job the store holds. *)
Report(limit, jobid, type, status) ==
    /\ run.pc \in EventReadPoints
    /\ store.reported < limit
    /\ Has(store.jobs, jobid)
    /\ store' = [store EXCEPT
                    !.events = Append(@, NewEvent(store, jobid, type,
                                                  status, now)),
                    !.reported = @ + 1]
    /\ UNCHANGED <<now, self, run, readers, ingested>>

(* The backend stops or resumes accepting writes. *)
StoreDown ==
    /\ run.pc \in WritePoints
    /\ store.up
    /\ store' = [store EXCEPT !.up = FALSE]
    /\ UNCHANGED <<now, self, run, readers, ingested>>

StoreUp ==
    /\ run.pc \in WritePoints
    /\ ~store.up
    /\ store' = [store EXCEPT !.up = TRUE]
    /\ UNCHANGED <<now, self, run, readers, ingested>>

(* A crontab import adds a job, edits one (a later installed timestamp and a
   new time field) or marks one deleted. *)
AddJob(id, time) ==
    /\ run.pc \in JobReadPoints
    /\ ~Has(store.jobs, id)
    /\ store' = [store EXCEPT !.jobs = Put(@, id, JobRow(0, time, FALSE))]
    /\ UNCHANGED <<now, self, run, readers, ingested>>

EditJob(id, time) ==
    /\ run.pc \in JobReadPoints
    /\ Has(store.jobs, id)
    /\ ~store.jobs[id].deleted
    /\ store.jobs[id].installed < MaxInstalled
    /\ store.jobs[id].time # time
    /\ store' = [store EXCEPT !.jobs[id] =
                    JobRow(@.installed + 1, time, FALSE)]
    /\ UNCHANGED <<now, self, run, readers, ingested>>

DeleteJob(id) ==
    /\ run.pc \in JobReadPoints
    /\ Has(store.jobs, id)
    /\ ~store.jobs[id].deleted
    /\ store' = [store EXCEPT !.jobs[id].deleted = TRUE]
    /\ UNCHANGED <<now, self, run, readers, ingested>>

----------------------------------------------------------------------------
(* CrabMonitor.wait_for_event_since, called by a reader thread. *)

NewReader ==
    [pc |-> "idle", startid |-> 0, warnid |-> 0, finishid |-> 0,
     waited |-> FALSE, result |-> <<>>]

(* seen_new taking an id equal to the caller's for a new one. *)
seen_new_or_equal(s, startid, warnid, finishid) ==
    \/ s.max_startid >= startid
    \/ s.max_warnid >= warnid
    \/ s.max_finishid >= finishid

(* Lines 342-343. *)
seen_new(s, startid, warnid, finishid) ==
    \/ s.max_startid > startid
    \/ s.max_warnid > warnid
    \/ s.max_finishid > finishid

(* Lines 349-351.  The status table is returned by reference: "status"
   stands for self.status as it is whenever the caller looks at it. *)
wait_result(s) ==
    [startid |-> s.max_startid, warnid |-> s.max_warnid,
     finishid |-> s.max_finishid, status |-> "self.status",
     numwarning |-> s.num_warning, numerror |-> s.num_error]

(* The call and the comparison of lines 342-345. *)
Call(r, startid, warnid, finishid) ==
    /\ readers[r].pc = "idle"
    /\ readers' = [readers EXCEPT ![r] =
          [pc |-> IF seen_new(self, startid, warnid, finishid)
                  THEN "return" ELSE "acquire",
           startid |-> startid, warnid |-> warnid, finishid |-> finishid,
           waited |-> FALSE, result |-> <<>>]]
    /\ UNCHANGED <<store, now, self, run, ingested>>

(* Line 346: the reader takes the lock of new_event. *)
Lock(r) ==
    /\ readers[r].pc = "acquire"
    /\ \A o \in ReaderIds : readers[o].pc # "locked"
    /\ readers' = [readers EXCEPT ![r].pc = "locked"]
    /\ UNCHANGED <<store, now, self, run, ingested>>

(* Line 347: the wait gives the lock back and blocks. *)
Wait(r) ==
    /\ readers[r].pc = "locked"
    /\ readers' = [readers EXCEPT ![r].pc = "waiting", ![r].waited = TRUE]
    /\ UNCHANGED <<store, now, self, run, ingested>>

(* The wait of line 347 without its timeout argument. *)
wait_without_timeout(r) ==
    /\ FALSE
    /\ UNCHANGED vars

(* Line 347: the wait times out. *)
WaitTimeout(r) ==
    /\ readers[r].pc = "waiting"
    /\ readers' = [readers EXCEPT ![r].pc = "return"]
    /\ UNCHANGED <<store, now, self, run, ingested>>

(* Lines 349-351. *)
Return(r) ==
    /\ readers[r].pc = "return"
    /\ readers' = [readers EXCEPT ![r].pc = "idle",
                                   ![r].result = <<wait_result(self)>>]
    /\ UNCHANGED <<store, now, self, run, ingested>>

(* get_job_status, line 330: the call, which waits on status_ready. *)
GetStatus(r) ==
    /\ readers[r].pc = "idle"
    /\ readers' = [readers EXCEPT ![r] =
          [NewReader EXCEPT !.pc = "status_wait"]]
    /\ UNCHANGED <<store, now, self, run, ingested>>

(* get_job_status returning without the wait on status_ready. *)
status_return_unready(r) ==
    /\ readers[r].pc = "status_wait"
    /\ readers' = [readers EXCEPT ![r].pc = "idle",
                                   ![r].result = <<[status |-> "self.status"]>>]
    /\ UNCHANGED <<store, now, self, run, ingested>>

(* Lines 330-331: status_ready is set, the table is returned by
   reference. *)
StatusReturn(r) ==
    /\ readers[r].pc = "status_wait"
    /\ self.status_ready
    /\ readers' = [readers EXCEPT ![r].pc = "idle",
                                   ![r].result = <<[status |-> "self.status"]>>]
    /\ UNCHANGED <<store, now, self, run, ingested>>

Reader ==
    \/ \E r \in ReaderIds, a, b, c \in 0..MaxAskId : Call(r, a, b, c)
    \/ \E r \in ReaderIds : Lock(r)
    \/ \E r \in ReaderIds : Wait(r)
    \/ \E r \in ReaderIds : WaitTimeout(r)
    \/ \E r \in ReaderIds : Return(r)
    \/ \E r \in ReaderIds : GetStatus(r)
    \/ \E r \in ReaderIds : StatusReturn(r)

----------------------------------------------------------------------------
(* Initial states and specifications. *)

NewStore(jobs, events) ==
    [jobs |-> jobs, events |-> events, up |-> TRUE, reported |-> 0]

InitWith(jobs, events) ==
    /\ store = NewStore(jobs, events)
    /\ now = 0
    /\ self = NewMonitor
    /\ run = NewRun
    /\ readers = [r \in ReaderIds |-> NewReader]
    /\ ingested = EmptyDict

OneJob(time) == Put(EmptyDict, 1, JobRow(0, time, FALSE))

TimeFields == {None, BadTime} \cup ValidTimes

StatusOrNone == Statuses \cup {None}

InitPlain == InitWith(OneJob(None), <<>>)

(* Spec: two jobs, crontab imports, an unreliable backend. *)
Init == InitWith(OneJob(EveryMinute), <<>>)

Next ==
    \/ Monitor
    \/ Tick(Horizon, 1)
    \/ \E id \in JobIds : Report(MaxEvents, id, START, None)
    \/ \E id \in JobIds : Report(MaxEvents, id, FINISH, FAIL)
    \/ \E id \in JobIds : AddJob(id, None)
    \/ \E id \in JobIds : EditJob(id, BadTime)
    \/ \E id \in JobIds : DeleteJob(id)
    \/ StoreDown
    \/ StoreUp

Spec == Init /\ [][Next]_vars

(* SpecIngest: one job whose last run left its first event in the store, or
   none, then events of every type with every status. *)
Earlier(status) ==
    <<[id |-> 1, jobid |-> 1, type |-> START, status |-> status,
       datetime |-> 0]>>

InitIngest ==
    \/ InitWith(OneJob(None), <<>>)
    \/ \E status \in StatusOrNone : InitWith(OneJob(None), Earlier(status))

NextIngest ==
    \/ Monitor
    \/ Tick(IngestTime, 1)
    \/ \E type \in EventTypes, status \in StatusOrNone :
          Report(MaxIngest, 1, type, status)

SpecIngest == InitIngest /\ [][NextIngest]_vars

(* SpecStart: one job scheduled every minute, START events with every
   status. *)
NextStart ==
    \/ Monitor
    \/ Tick(IngestTime, 1)
    \/ \E status \in StatusOrNone : Report(MaxIngest, 1, START, status)

SpecStart == InitWith(OneJob(EveryMinute), <<>>) /\ [][NextStart]_vars

(* SpecHist: one job with a record of earlier runs in the store, which the
   bulk load replays, and a few more events reported afterwards. *)
Prefill(n) ==
    [i \in 1..n |-> [id |-> i, jobid |-> 1, type |-> FINISH,
                     status |-> IF i % 3 = 0 THEN FAIL ELSE SUCCESS,
                     datetime |-> 0]]

InitHist == \E n \in 0..MaxPrefill : InitWith(OneJob(None), Prefill(n))

NextHist ==
    \/ Monitor
    \/ \E status \in {None, OK, SUCCESS, FAIL, MISSED} :
          Report(MaxReports, 1, FINISH, status)

SpecHist == InitHist /\ [][NextHist]_vars

(* SpecTimeout: one job without a schedule, a clock that may skip a
   minute, a backend that may refuse writes. *)
NextTimeout ==
    \/ Monitor
    \/ Tick(MaxTime, MaxJump)
    \/ Report(MaxWatch, 1, START, None)
    \/ Report(MaxWatch, 1, FINISH, SUCCESS)
    \/ StoreDown
    \/ StoreUp

SpecTimeout == InitPlain /\ [][NextTimeout]_vars

(* SpecLate: one scheduled job, a clock that may skip a minute, a backend
   that may refuse writes. *)
InitLate == \E time \in ValidTimes : InitWith(OneJob(time), <<>>)

NextLate ==
    \/ Monitor
    \/ Tick(LateTime, MaxJump)
    \/ Report(MaxStarts, 1, START, None)
    \/ StoreDown
    \/ StoreUp

SpecLate == InitLate /\ [][NextLate]_vars

(* SpecSteady: as SpecLate, with a poll cycle in every minute and a backend
   that accepts every write. *)
NextSteady ==
    \/ Monitor
    \/ TickSteady(LateTime)
    \/ Report(MaxStarts, 1, START, None)

SpecSteady == InitLate /\ [][NextSteady]_vars

(* SpecJobs: two jobs, one of them added later, that start and are
   deleted. *)
NextJobs ==
    \/ Monitor
    \/ Tick(JobsTime, 1)
    \/ \E id \in JobIds, type \in {START, FINISH} :
          Report(MaxJobEvents, id, type, None)
    \/ \E id \in JobIds : AddJob(id, EveryMinute)
    \/ \E id \in JobIds : DeleteJob(id)

SpecJobs == InitWith(OneJob(EveryMinute), <<>>) /\ [][NextJobs]_vars

(* SpecHandover: two jobs in the store from the beginning, and runners that
   report events while the monitor loads and polls. *)
TwoJobs(time) == Put(OneJob(time), 2, JobRow(0, time, FALSE))

NextHandover ==
    \/ Monitor
    \/ \E id \in JobIds, type \in {START, FINISH} :
          Report(MaxHandover, id, type, None)

SpecHandover == InitWith(TwoJobs(None), <<>>) /\ [][NextHandover]_vars

(* SpecEdit: one job scheduled every minute whose crontab entry is edited
   while it starts, fails and is flagged late. *)
NextEdit ==
    \/ Monitor
    \/ Tick(EditTime, 1)
    \/ Report(MaxEditEvents, 1, START, FAIL)
    \/ \E time \in TimeFields : EditJob(1, time)

SpecEdit == InitWith(OneJob(EveryMinute), <<>>) /\ [][NextEdit]_vars

(* SpecWait: one job and a reader calling wait_for_event_since. *)
NextWait ==
    \/ Monitor
    \/ Reader
    \/ Report(MaxWait, 1, START, None)
    \/ Report(MaxWait, 1, FINISH, SUCCESS)
    \/ Report(MaxWait, 1, WARN, MISSED)

SpecWait == InitPlain /\ [][NextWait]_vars

----------------------------------------------------------------------------
(* Event ingestion as seen from outside: the monitor is about to hand
   IngestEvent to _process_event for IngestJob, and does so in the step
   that moves it on. *)

Ingesting ==
    \/ run.pc = "load_event" /\ run.events # <<>>
    \/ /\ run.pc = "ev_proc"
       /\ ~(~Has(self.status, run.jobid) /\ JobDeleted(store, run.jobid))

IngestEvent ==
    IF run.pc = "load_event" THEN Head(run.events) ELSE run.events[run.i]

IngestJob == run.jobid

Ingests == Ingesting /\ run' # run

(* What the job shows before the event: a job without a record gets a new
   one. *)
PrevStatus == IF Has(self.status, IngestJob)
              THEN self.status[IngestJob].status ELSE None

PrevRunning == IF Has(self.status, IngestJob)
               THEN self.status[IngestJob].running ELSE FALSE

NonTrivial(statuses) ==
    SelectSeq(statuses, LAMBDA s : s # None /\ ~is_trivial(s))

LastN(seq, n) ==
    IF Len(seq) <= n THEN seq ELSE SubSeq(seq, Len(seq) - n + 1, Len(seq))

Last(seq) == seq[Len(seq)]

(* The events of the store that the monitor has fetched or replayed. *)
Ingested(e) ==
    \/ e.type = START /\ e.id <= self.max_startid
    \/ e.type = WARN /\ e.id <= self.max_warnid
    \/ e.type = FINISH /\ e.id <= self.max_finishid

StoreEvents == {store.events[i] : i \in 1..Len(store.events)}

(* The statuses of the events handed to _process_event for job j, in the
   order of the calls. *)
IngestedStatuses(j) == [i \in 1..Len(ingested[j]) |-> ingested[j][i].status]

----------------------------------------------------------------------------
(* C1: whatever events have been ingested, by the bulk load or by polling,
   no tracked job's history holds more than HISTORY_COUNT = 10 entries. *)
C1_HistoryBounded ==
    \A j \in DOMAIN self.status :
        Len(self.status[j].history) <= HISTORY_COUNT

(* A job with more than ten non-trivial statuses ingested, whose history is
   full. *)
C1_Witness ==
    \E j \in DOMAIN self.status :
        /\ Len(NonTrivial(IngestedStatuses(j))) > HISTORY_COUNT
        /\ Len(self.status[j].history) = HISTORY_COUNT

(* C3: an ingested event with status s changes the job's status p by the
   precedence rule: a trivial s replaces only an unset or ok-category p, a
   warning s replaces anything but an error-category p, any other s always
   replaces p; otherwise, and for an event without status, p stays. *)
C3_StatusPrecedence ==
    [][Ingests =>
        LET s == IngestEvent.status
            p == PrevStatus
            q == self'.status[IngestJob].status
        IN  /\ s = None => q = p
            /\ s # None /\ is_trivial(s) =>
                  q = IF p = None \/ is_ok(p) THEN s ELSE p
            /\ s # None /\ is_warning(s) =>
                  q = IF p # None /\ is_error(p) THEN p ELSE s
            /\ s # None /\ ~is_trivial(s) /\ ~is_warning(s) => q = s]_vars

(* A job showing an error after a warning was ingested last. *)
C3_Witness ==
    \E j \in DOMAIN self.status :
        /\ self.status[j].status = FAIL
        /\ IngestedStatuses(j) # <<>>
        /\ Last(IngestedStatuses(j)) = MISSED

(* C4: a tracked job's history is the last min(10, n) of the n non-trivial
   statuses ingested for it since its record was created, in ingestion
   order. *)
C4_HistoryIsRecentNonTrivial ==
    \A j \in DOMAIN self.status :
        self.status[j].history =
            LastN(NonTrivial(IngestedStatuses(j)), HISTORY_COUNT)

(* More than ten non-trivial statuses ingested, among them a warning that
   left the error status in place, and a trivial status. *)
C4_Witness ==
    \E j \in DOMAIN self.status :
        /\ Len(NonTrivial(IngestedStatuses(j))) > HISTORY_COUNT
        /\ self.status[j].status = FAIL
        /\ Last(self.status[j].history) = MISSED
        /\ \E i \in 1..Len(IngestedStatuses(j)) : IngestedStatuses(j)[i] = OK

(* C5 as stated: ingesting a START event leaves the job running, with
   last_start the event's time, timeout the event's time plus the job's
   configured timeout, and no miss_timeout entry, whatever status the event
   carries. *)
C5_StartAnyStatus ==
    [][Ingests /\ IngestEvent.type = START =>
        /\ self'.status[IngestJob].running
        /\ Has(self'.last_start, IngestJob)
        /\ self'.last_start[IngestJob] = IngestEvent.datetime
        /\ Has(self'.timeout, IngestJob)
        /\ self'.timeout[IngestJob] =
              IngestEvent.datetime + self'.config[IngestJob].timeout
        /\ ~Has(self'.miss_timeout, IngestJob)]_vars

(* C5 amended: ingesting a START event sets last_start to the event's time
   and leaves no miss_timeout entry; unless the event carries the status
   TIMEOUT it leaves the job running with timeout the event's time plus
   the job's configured timeout; a START event with status TIMEOUT leaves
   the job not running and without a timeout entry. *)
C5_StartEffect ==
    [][Ingests /\ IngestEvent.type = START =>
        /\ Has(self'.last_start, IngestJob)
        /\ self'.last_start[IngestJob] = IngestEvent.datetime
        /\ ~Has(self'.miss_timeout, IngestJob)
        /\ IF IngestEvent.status = TIMEOUT
           THEN /\ ~self'.status[IngestJob].running
                /\ ~Has(self'.timeout, IngestJob)
           ELSE /\ self'.status[IngestJob].running
                /\ Has(self'.timeout, IngestJob)
                /\ self'.timeout[IngestJob] =
                      IngestEvent.datetime + self'.config[IngestJob].timeout]_vars

(* A START event with a status, reported in minute 1 after the job was
   flagged late, has been ingested: the job runs, its deadline is set, its
   miss_timeout entry is gone. *)
C5_Witness ==
    \E e \in StoreEvents :
        /\ e.type = START /\ e.status = FAIL /\ e.datetime = 1
        /\ Ingested(e)
        /\ \E l \in StoreEvents : l.type = WARN /\ l.status = LATE
                                  /\ l.jobid = e.jobid /\ l.datetime = 0
        /\ Has(self.status, e.jobid)
        /\ self.status[e.jobid].running
        /\ Has(self.timeout, e.jobid)
        /\ self.timeout[e.jobid] = 1 + JobTimeout
        /\ ~Has(self.miss_timeout, e.jobid)
        /\ run.pc = "ev_rel"

(* C6: ingesting a FINISH event, or an event of any type with status
   TIMEOUT, leaves the job not running and without a timeout entry; an
   event that is neither START, FINISH nor of status TIMEOUT leaves running
   and the timeout entry as they were. *)
C6_FinishEffect ==
    [][Ingests =>
        LET e == IngestEvent
            j == IngestJob
        IN  /\ e.type = FINISH \/ e.status = TIMEOUT =>
                  /\ ~self'.status[j].running
                  /\ ~Has(self'.timeout, j)
            /\ e.type \notin {START, FINISH} /\ e.status # TIMEOUT =>
                  /\ self'.status[j].running = PrevRunning
                  /\ self'.timeout = self.timeout]_vars

(* A FINISH event has been ingested for a job that a START event had set
   running. *)
C6_Witness ==
    \E e \in StoreEvents, f \in StoreEvents :
        /\ e.type = START /\ f.type = FINISH /\ e.jobid = f.jobid
        /\ e.status # TIMEOUT
        /\ Ingested(e) /\ Ingested(f)
        /\ run.pc = "ev_rel" /\ run.events[run.i] = f
        /\ Has(self.last_start, e.jobid)
        /\ ~self.status[e.jobid].running
        /\ ~Has(self.timeout, e.jobid)

(* C2: every status record a reader can obtain carries a reliability that
   is consistent with its history: 0 for an empty history, otherwise
   100 * count(SUCCESS) / len(history), integer division.  Stated for the
   table as it stands between two poll cycles, after the bulk load, when no
   event is half ingested: get_job_status and wait_for_event_since both
   hand out this table. *)
C2_ReliabilityConsistent ==
    self.status_ready /\ run.pc = "sleep" =>
        \A j \in DOMAIN self.status :
            /\ HasKey(self.status[j], "reliability")
            /\ self.status[j].reliability =
                  reliability_of(self.status[j].history)

(* The warnings with status `status` that the store holds for job j. *)
Warnings(st, j, status) ==
    SelectSeq(st.events, LAMBDA e :
        e.type = WARN /\ e.jobid = j /\ e.status = status)

WarningsAt(st, j, status, t) ==
    SelectSeq(Warnings(st, j, status), LAMBDA e : e.datetime = t)

(* The step that leaves position pc of run(). *)
Leaves(pc) == run.pc = pc /\ run'.pc # pc

(* C7 as stated: when the lateness check is reached for a job whose
   schedule matches the current minute and that has no recent start, the
   store holds exactly one LATE warning for the job and the minute
   afterwards, and miss_timeout[job] is now + graceperiod. *)
C7_ExactlyOneLate ==
    [][Leaves("late") =>
        \A j \in DOMAIN self.sched :
            is_late(self, j, run.datetime_) =>
                /\ Len(WarningsAt(store', j, LATE, run.datetime_)) = 1
                /\ Has(self'.miss_timeout, j)
                /\ self'.miss_timeout[j] = run.datetime_ + Graceperiod]_vars

(* C7, amended: the first poll cycle of a minute attempts one LATE warning
   for every job whose schedule matches the minute and that has no recent
   start; the store holds it afterwards if it accepted the write and holds
   none if it refused; miss_timeout[job] is now + graceperiod either way.
   No other job is flagged, a later cycle of the same minute flags nothing,
   and the store never holds two LATE warnings of one job for one minute. *)
C7_LateOncePerCheck ==
    /\ [](\A j \in JobIds, t \in 0..now :
            Len(WarningsAt(store, j, LATE, t)) <= 1)
    /\ [][Leaves("late") =>
            \A j \in DOMAIN self.sched :
                IF minute_changed(self, run.datetime_)
                   /\ is_late(self, j, run.datetime_)
                THEN /\ Len(WarningsAt(store', j, LATE, run.datetime_)) =
                            IF store.up THEN 1 ELSE 0
                     /\ Has(self'.miss_timeout, j)
                     /\ self'.miss_timeout[j] = run.datetime_ + Graceperiod
                ELSE /\ Warnings(store', j, LATE) = Warnings(store, j, LATE)
                     /\ self'.miss_timeout = self.miss_timeout]_vars

(* A job just flagged: its LATE warning is in the store and its
   miss_timeout is set. *)
C7_Witness ==
    /\ run.pc = "diff_list"
    /\ Has(self.miss_timeout, 1)
    /\ self.miss_timeout[1] = run.datetime_ + Graceperiod
    /\ Len(WarningsAt(store, 1, LATE, run.datetime_)) = 1
    /\ run.datetime_ > 0

(* The START events of job j that the monitor has ingested. *)
IngestedStarts(j) ==
    SelectSeq(store.events, LAMBDA e :
        e.type = START /\ e.jobid = j /\ Ingested(e))

(* C8 as stated: once a poll cycle has completed later than t + graceperiod
   for a job flagged LATE at t, with no START of the job ingested, the store
   holds a MISSED warning for the job, whatever its schedule. *)
C8_MissedAfterLate ==
    run.pc = "sleep" /\ self.last_time = time_stamp(run.datetime_) =>
        \A j \in DOMAIN self.sched, t \in 0..now :
            /\ Len(WarningsAt(store, j, LATE, t)) = 1
            /\ t + Graceperiod < run.datetime_
            /\ IngestedStarts(j) = <<>>
            => Len(Warnings(store, j, MISSED)) >= 1

(* C9 as stated: the scan of self.timeout writes exactly one TIMEOUT
   warning to the store for every deadline that has passed, and removes the
   entry. *)
C9_ExactlyOneTimeout ==
    [][Leaves("expire_timeout") =>
        \A j \in DOMAIN self.timeout :
            self.timeout[j] < run.datetime_ =>
                /\ ~Has(self'.timeout, j)
                /\ Len(Warnings(store', j, TIMEOUT)) =
                      Len(Warnings(store, j, TIMEOUT)) + 1]_vars

(* C9, amended: for every deadline that has passed, the scan of
   self.timeout removes the entry and attempts one TIMEOUT warning, which
   the store holds afterwards if it accepted the write and does not hold if
   it refused.  Entries whose deadline has not passed stay, and nothing
   else writes a TIMEOUT warning: none is written for a job without an
   entry, which is what an ingested FINISH leaves, and the store never
   holds more TIMEOUT warnings of a job than START events ingested for
   it. *)
C9_TimeoutOncePerStart ==
    /\ [](\A j \in JobIds :
            Len(Warnings(store, j, TIMEOUT)) <= Len(IngestedStarts(j)))
    /\ [][\A j \in JobIds :
            IF Leaves("expire_timeout") /\ Has(self.timeout, j)
               /\ self.timeout[j] < run.datetime_
            THEN /\ ~Has(self'.timeout, j)
                 /\ Len(Warnings(store', j, TIMEOUT)) =
                       Len(Warnings(store, j, TIMEOUT))
                       + IF store.up THEN 1 ELSE 0
            ELSE /\ Warnings(store', j, TIMEOUT) = Warnings(store, j, TIMEOUT)
                 /\ Leaves("expire_timeout") =>
                       (Has(self'.timeout, j) <=> Has(self.timeout, j))]_vars

(* A deadline has passed and the scan has written its TIMEOUT warning and
   removed the entry. *)
C9_Witness ==
    /\ run.pc = "sleep"
    /\ Len(Warnings(store, 1, TIMEOUT)) = 1
    /\ Has(self.last_start, 1)
    /\ self.last_start[1] + JobTimeout < run.datetime_
    /\ ~Has(self.timeout, 1)
    /\ self.status[1].running

(* C10: a call of wait_for_event_since goes straight to its return
   statement, without waiting, when one of the three watermarks exceeds the
   id the caller passed, and otherwise waits on new_event; a waiting caller
   leaves the wait only by the broadcast of a poll cycle that fetched events
   or by the timeout; the call returns the three watermarks, the status
   table and the two counters as they are when it returns. *)
C10_WaitForEventSince ==
    [][\A r \in ReaderIds :
        LET old == readers[r]
            new == readers'[r]
        IN  /\ old.pc = "idle" /\ new.pc \notin {"idle", "status_wait"} =>
                 /\ ~new.waited
                 /\ new.pc =
                      IF \/ self.max_startid > new.startid
                         \/ self.max_warnid > new.warnid
                         \/ self.max_finishid > new.finishid
                      THEN "return" ELSE "acquire"
            /\ old.pc = "acquire" /\ new # old => new.pc = "locked"
            /\ old.pc = "locked" /\ new # old =>
                 new.pc = "waiting" /\ new.waited
            /\ old.pc = "waiting" /\ new # old =>
                 /\ new.pc = "return"
                 /\ \/ run.pc = "notify" /\ run.events # <<>> /\ run' # run
                    \/ run' = run
            /\ old.pc = "return" /\ new # old =>
                 /\ new.pc = "idle"
                 /\ new.waited = old.waited
                 /\ new.result =
                      <<[startid |-> self.max_startid,
                         warnid |-> self.max_warnid,
                         finishid |-> self.max_finishid,
                         status |-> "self.status",
                         numwarning |-> self.num_warning,
                         numerror |-> self.num_error]>>]_vars

(* A caller that had seen every event waited, and has returned with a
   watermark beyond the id it passed. *)
C10_Witness ==
    /\ readers[1].pc = "idle"
    /\ readers[1].waited
    /\ readers[1].result # <<>>
    /\ readers[1].startid = 1
    /\ readers[1].result[1].warnid > readers[1].warnid

----------------------------------------------------------------------------
(* The callers of wait_for_event_since that found nothing new and have not
   returned. *)
Blocked(r) == readers[r].pc \in {"acquire", "locked", "waiting"}

(* C11: the broadcast of a poll cycle that fetched events wakes every
   caller that found no watermark ahead of its ids and has not returned,
   when the cycle has put a watermark ahead of them: none stays behind,
   blocked until its timeout. *)
C11_NoLostWakeup ==
    [][Leaves("notify") /\ run.events # <<>> =>
        \A r \in ReaderIds :
            /\ Blocked(r)
            /\ seen_new(self, readers[r].startid, readers[r].warnid,
                        readers[r].finishid)
            => readers'[r].pc = "return"]_vars

----------------------------------------------------------------------------
(* SpecWaitLive: one job, START events and a reader, with the scheduling the
   threads have: the monitor
   thread keeps running, and gets the lock of new_event if the lock is free
   again and again; a reader thread that can take its next step takes it,
   and a wait whose timeout has run out ends. *)
NextLive ==
    \/ Monitor
    \/ \E r \in ReaderIds, a \in 0..MaxAskId : Call(r, a, 0, 0)
    \/ \E r \in ReaderIds : Lock(r)
    \/ \E r \in ReaderIds : Wait(r)
    \/ \E r \in ReaderIds : WaitTimeout(r)
    \/ \E r \in ReaderIds : Return(r)
    \/ \E r \in ReaderIds : GetStatus(r)
    \/ \E r \in ReaderIds : StatusReturn(r)
    \/ Report(MaxWait, 1, START, None)

SpecWaitLive ==
    /\ InitPlain /\ [][NextLive]_vars
    /\ WF_vars(Monitor)
    /\ SF_vars(Notify)
    /\ \A r \in ReaderIds :
          /\ WF_vars(Lock(r))
          /\ WF_vars(Wait(r))
          /\ WF_vars(WaitTimeout(r))
          /\ WF_vars(Return(r))
          /\ WF_vars(StatusReturn(r))

(* C12: every call of wait_for_event_since returns, whether or not an
   event is ever ingested, and a poll cycle that has events to announce
   gets past its notify_all whatever the readers do with new_event. *)
C12_WaitReturns ==
    /\ \A r \in ReaderIds :
          (Blocked(r) \/ readers[r].pc = "return") ~> readers[r].pc = "idle"
    /\ run.pc = "notify" ~> run.pc = "late"

(* A caller has waited and returned with no event in the store at all: its
   wait ended by the timeout. *)
C12_Witness ==
    /\ readers[1].pc = "idle"
    /\ readers[1].waited
    /\ readers[1].result # <<>>
    /\ store.events = <<>>
    /\ self.status_ready

----------------------------------------------------------------------------
(* The statuses of the events the store holds for job j, oldest first. *)
StoredStatuses(j) ==
    LET evs == SelectSeq(store.events, LAMBDA e : e.jobid = j)
    IN  [i \in 1..Len(evs) |-> evs[i].status]

IsPrefix(a, b) == Len(a) <= Len(b) /\ a = SubSeq(b, 1, Len(a))

(* C13: get_job_status returns only when status_ready is set; status_ready
   is set only by the step that ends the bulk load, when every job of the
   listing has its record, the events the store held for it (up to the 40
   newest) replayed oldest first and its reliability computed; and a caller
   of get_job_status
   returns once that has happened. *)
C13_StatusAfterBulkLoad ==
    /\ [](self.status_ready => run.pc \notin {"start", "load_job", "load_event"})
    /\ [][\A r \in ReaderIds :
            readers[r].pc = "status_wait" /\ readers'[r].pc # "status_wait"
            => /\ self.status_ready
               /\ readers'[r].result = <<[status |-> "self.status"]>>]_vars
    /\ [][~self.status_ready /\ self'.status_ready =>
            /\ run.pc = "load_job" /\ run.jobs = <<>>
            /\ \A i \in 1..Len(get_jobs(store)) :
                  Has(self'.status, get_jobs(store)[i].id)
            /\ \A j \in DOMAIN self'.status :
                  /\ Len(StoredStatuses(j)) <= ReplayFactor * HISTORY_COUNT
                        => IsPrefix(IngestedStatuses(j)', StoredStatuses(j))
                  /\ self'.status[j].history =
                        LastN(NonTrivial(IngestedStatuses(j)'), HISTORY_COUNT)
                  /\ HasKey(self'.status[j], "reliability")
                  /\ self'.status[j].reliability =
                        reliability_of(self'.status[j].history)]_vars
    /\ \A r \in ReaderIds :
          readers[r].pc = "status_wait" ~> readers[r].pc = "idle"

(* A caller of get_job_status has its table, after a bulk load that
   replayed an event. *)
C13_Witness ==
    /\ readers[1].pc = "idle"
    /\ readers[1].result = <<[status |-> "self.status"]>>
    /\ self.status_ready
    /\ Has(self.last_start, 1)
    /\ store.reported = 1 /\ run.pc = "sleep" /\ run.events = <<>>
    /\ run.datetime_ = 0 /\ self.last_time = NoTime

----------------------------------------------------------------------------
(* What a caller of wait_for_event_since is handed by value. *)
Observed(result) ==
    [startid |-> result.startid, warnid |-> result.warnid,
     finishid |-> result.finishid, numwarning |-> result.numwarning,
     numerror |-> result.numerror]

(* C14, for a poll cycle that fetched no event: such a cycle leaves the
   watermarks as it found them and ends with the counters recounted from
   the status table, which it does not change before the recount; a caller
   that returns while the cycle is at its recount is handed either the
   watermarks and counters the cycle found or those it ends with. *)
C14_CycleAtomic ==
    [][\A r \in ReaderIds :
        /\ readers[r].pc = "return" /\ readers'[r].pc = "idle"
        /\ run.pc \in {"count_reset", "count"} /\ run.events = <<>>
        => LET seen == Observed(readers'[r].result[1])
           IN  \/ seen = run.before
               \/ seen = [run.before EXCEPT
                             !.numwarning = count_warning(self),
                             !.numerror = count_error(self)]]_vars

----------------------------------------------------------------------------
(* The keys of the six per-job maps. *)
MapKeys(s) ==
    DOMAIN s.status \cup DOMAIN s.config \cup DOMAIN s.sched
    \cup DOMAIN s.last_start \cup DOMAIN s.timeout \cup DOMAIN s.miss_timeout

(* C15: the step that ends a reconciliation pass leaves in the six per-job
   maps only ids of the listing the pass fetched, and config, sched,
   last_start, timeout and miss_timeout never hold a key that status does
   not hold. *)
C15_MapKeys ==
    /\ [](MapKeys(self) = DOMAIN self.status)
    /\ [][Leaves("diff_job") => MapKeys(self') \subseteq run.listing]_vars

(* A reconciliation pass has just removed a job that had a schedule, a
   start and both deadlines, and kept another. *)
C15_Witness ==
    /\ run.pc = "expire_miss"
    /\ DOMAIN self.status = {2}
    /\ \E e \in StoreEvents : e.jobid = 1 /\ Ingested(e)
    /\ store.jobs[1].deleted

----------------------------------------------------------------------------
(* The store has no row for job j, or a row marked deleted. *)
Vanished(j) == ~Has(store.jobs, j) \/ store.jobs[j].deleted

(* The monitor is about to look up the details of a job without a record,
   AtJob, in the bulk load, in the reconciliation pass or for an event. *)
AtLookup ==
    \/ run.pc = "load_job" /\ run.jobs # <<>>
    \/ run.pc = "diff_job" /\ run.jobs # <<>>
         /\ Head(run.jobs).id \notin run.currentjobs
    \/ run.pc = "ev_proc" /\ ~Has(self.status, run.jobid)

AtJob == IF run.pc = "ev_proc" THEN run.jobid ELSE Head(run.jobs).id

(* C16: a job gets its record only from a lookup that finds it; a lookup
   that finds the job vanished changes nothing of the instance data and
   moves on: to the next job of the listing in the bulk load and in the
   reconciliation pass, whose removals stay due, and to the next event of
   the batch, or the recount after the last one, in the ingestion. *)
C16_VanishedJobSkipped ==
    /\ [][\A j \in JobIds :
            ~Has(self.status, j) /\ Has(self'.status, j) =>
                AtLookup /\ AtJob = j /\ ~Vanished(j)]_vars
    /\ [][AtLookup /\ Vanished(AtJob) /\ run' # run =>
            /\ self' = self
            /\ IF run.pc = "ev_proc"
               THEN /\ run'.events = run.events
                    /\ IF run.i < Len(run.events)
                       THEN run'.pc = "ev_max" /\ run'.i = run.i + 1
                       ELSE run'.pc = "count_reset"
               ELSE /\ run'.pc = run.pc
                    /\ run'.jobs = Tail(run.jobs)
                    /\ run'.currentjobs = run.currentjobs]_vars

(* The first poll cycle has fetched the event of a job that was added and
   deleted after the bulk load, and has gone on to the recount without a
   record for it. *)
C16_Witness ==
    /\ run.pc = "count_reset"
    /\ self.last_time = NoTime
    /\ run.events # <<>>
    /\ \E e \in StoreEvents :
          /\ Ingested(e)
          /\ e.jobid = 2
          /\ Vanished(2)
          /\ 2 \notin MapKeys(self)
          /\ DOMAIN self.status = {1}

----------------------------------------------------------------------------
(* Job j has started, no FINISH event of it is in the store, and its
   timeout entry is gone: its deadline has passed and the scan of
   self.timeout has called _write_warning for it. *)
TimedOut(j) ==
    /\ Has(self.last_start, j)
    /\ ~Has(self.timeout, j)
    /\ \A e \in StoreEvents : e.jobid = j => e.type # FINISH

(* C17: a job whose TIMEOUT warning was due shows the status TIMEOUT once
   the monitor has ingested whatever the store holds, whether the store
   accepted the warning or not. *)
C17_StatusReflectsWarning ==
    run.pc = "sleep" /\ (\A e \in StoreEvents : Ingested(e)) =>
        \A j \in DOMAIN self.status :
            TimedOut(j) => /\ self.status[j].status = TIMEOUT
                           /\ ~self.status[j].running

----------------------------------------------------------------------------
(* C18, second half: the lateness check writes no LATE warning and creates
   or moves no miss_timeout entry for a job whose scheduled flag is
   false. *)
C18_UnscheduledNeverLate ==
    [][Leaves("late") =>
        \A j \in DOMAIN self.status :
            ~self.status[j].scheduled =>
                /\ Warnings(store', j, LATE) = Warnings(store, j, LATE)
                /\ Has(self'.miss_timeout, j) =>
                      /\ Has(self.miss_timeout, j)
                      /\ self'.miss_timeout[j] = self.miss_timeout[j]]_vars

----------------------------------------------------------------------------
(* The tracked records whose status is in the warning category, and those
   whose status is neither unset, ok nor a warning. *)
WarningRecords(s) ==
    {j \in DOMAIN s.status :
        s.status[j].status # None /\ is_warning(s.status[j].status)}

ErrorRecords(s) ==
    {j \in DOMAIN s.status :
        /\ s.status[j].status # None
        /\ ~is_ok(s.status[j].status)
        /\ ~is_warning(s.status[j].status)}

CountersAgree(s) ==
    /\ s.num_warning = Cardinality(WarningRecords(s))
    /\ s.num_error = Cardinality(ErrorRecords(s))

(* C19 as stated: whenever the monitor is between two poll cycles after
   the bulk load, the counters agree with the status table. *)
C19_CountersAgree ==
    self.status_ready /\ run.pc = "sleep" => CountersAgree(self)

(* C19, amended: the recount of a poll cycle makes the counters agree with
   the status table, and nothing but the recount changes them; from the
   recount to the next cycle's event ingestion the table loses counted
   records only by the removal of jobs; so between two poll cycles the
   counters agree with the table once the first poll cycle has run, for a
   monitor whose reconciliation passes remove no job. *)
C19_CountersAfterRecount ==
    /\ [][Leaves("count") => CountersAgree(self')]_vars
    /\ [][self'.num_warning # self.num_warning
          \/ self'.num_error # self.num_error
          => run.pc \in {"count_reset", "count"}]_vars
    /\ [][run.pc \in {"notify", "late", "diff_list", "diff_job",
                       "expire_miss", "expire_timeout", "sleep"} =>
            /\ WarningRecords(self') =
                  WarningRecords(self) \cap DOMAIN self'.status
            /\ ErrorRecords(self') =
                  ErrorRecords(self) \cap DOMAIN self'.status]_vars
    /\ [](run.pc = "sleep" /\ self.last_time # NoTime => CountersAgree(self))

(* Between two poll cycles, a job showing an error and counted as one. *)
C19_Witness ==
    /\ run.pc = "sleep"
    /\ self.last_time # NoTime
    /\ self.num_error = 1
    /\ self.num_warning = 0
    /\ self.status[1].status = FAIL

----------------------------------------------------------------------------
(* The event the monitor is about to pass to _update_max_id_values. *)
AtUpdate ==
    \/ run.pc = "load_event" /\ run.events # <<>>
    \/ run.pc = "ev_max"

UpdateEvent ==
    IF run.pc = "load_event" THEN Head(run.events) ELSE run.events[run.i]

SetMax(S) == CHOOSE x \in S : \A y \in S : y <= x

(* The largest of `id` and the ids of the events of type `type` in the
   batch the poll cycle fetched. *)
BatchMax(id, type) ==
    SetMax({id} \cup {run.events[i].id : i \in
                {k \in 1..Len(run.events) : run.events[k].type = type}})

(* C20: no watermark ever decreases; a watermark changes only in the step
   that passes an event of its own type to _update_max_id_values, and then
   to that event's id; and when the events of a batch have been handled,
   each watermark is the largest of its value before the cycle and the ids
   of the batch's events of its type, skipped events included. *)
C20_Watermarks ==
    /\ [][/\ self'.max_startid >= self.max_startid
          /\ self'.max_warnid >= self.max_warnid
          /\ self'.max_finishid >= self.max_finishid]_vars
    /\ [][/\ self'.max_startid # self.max_startid =>
                /\ AtUpdate /\ UpdateEvent.type = START
                /\ self'.max_startid = UpdateEvent.id
          /\ self'.max_warnid # self.max_warnid =>
                /\ AtUpdate /\ UpdateEvent.type = WARN
                /\ self'.max_warnid = UpdateEvent.id
          /\ self'.max_finishid # self.max_finishid =>
                /\ AtUpdate /\ UpdateEvent.type = FINISH
                /\ self'.max_finishid = UpdateEvent.id]_vars
    /\ [](run.pc = "count_reset" =>
            /\ self.max_startid = BatchMax(run.before.startid, START)
            /\ self.max_warnid = BatchMax(run.before.warnid, WARN)
            /\ self.max_finishid = BatchMax(run.before.finishid, FINISH))

(* A batch with a warning and the event of a vanished job has been handled:
   the watermarks cover both. *)
C20_Witness ==
    /\ run.pc = "count_reset"
    /\ Len(run.events) >= 2
    /\ \E i \in 1..Len(run.events) :
          /\ run.events[i].type # WARN
          /\ Vanished(run.events[i].jobid)
          /\ ~Has(self.status, run.events[i].jobid)
    /\ self.max_warnid >= 1
    /\ self.max_startid + self.max_finishid >= 1

----------------------------------------------------------------------------
(* C21: a job that has a timeout entry is tracked and has running = TRUE;
   the converse is not required. *)
C21_DeadlineImpliesRunning ==
    \A j \in DOMAIN self.timeout :
        /\ Has(self.status, j)
        /\ self.status[j].running

(* Both sides of the claim have happened: the deadline of a START has been
   removed by the expiry scan while the job is still running, and the
   TIMEOUT warning of that START has been written to the store. *)
C21_Witness ==
    /\ Has(self.status, 1)
    /\ self.status[1].running
    /\ ~Has(self.timeout, 1)
    /\ \E e \in StoreEvents : e.type = WARN /\ e.status = TIMEOUT

----------------------------------------------------------------------------
(* How many times event e has been handed to _process_event for job j. *)
Times(j, e) ==
    Cardinality({i \in 1..Len(ingested[j]) : ingested[j][i] = e})

(* The events the store holds for jobs that are tracked and not deleted. *)
TrackedEvents ==
    {e \in StoreEvents :
        Has(self.status, e.jobid) /\ ~JobDeleted(store, e.jobid)}

(* No event is applied twice. *)
NeverTwice == \A e \in TrackedEvents : Times(e.jobid, e) <= 1

(* No event is skipped: get_events_since never returns an event at or below
   the watermark of its type, so between two poll cycles every such event
   must already have been ingested. *)
NeverSkipped ==
    self.status_ready /\ run.pc = "sleep" =>
        \A e \in TrackedEvents : Ingested(e) => Times(e.jobid, e) = 1

(* C22 as stated: across the hand-over from the bulk load to polling, every
   event the store holds for a tracked, non-deleted job is ingested exactly
   once, events reported while the bulk load works on later jobs
   included. *)
C22_IngestedExactlyOnce == NeverTwice /\ NeverSkipped

----------------------------------------------------------------------------
(* The reconciliation pass is about to compare a listed job with its
   record. *)
AtTrackedJob ==
    /\ run.pc = "diff_job"
    /\ run.jobs # <<>>
    /\ Head(run.jobs).id \in run.currentjobs

(* Everything of the monitor but the status records and the schedules. *)
OutsideJobs(s) ==
    [s EXCEPT !.status = EmptyDict, !.sched = EmptyDict]

(* Record `new` is record `old` with at most the scheduled flag and the
   installed timestamp changed. *)
SameButSchedule(old, new) ==
    /\ DOMAIN new = DOMAIN old \cup {"scheduled"}
    /\ \A k \in DOMAIN old \ {"scheduled", "installed"} : new[k] = old[k]

(* C23: for a tracked job whose listed installed timestamp is later than the
   cached one, the reconciliation pass sets the scheduled flag by the job's
   time field, stores the schedule if there is one, and sets the cached
   installed timestamp to the listed value; the rest of the job's record
   (status, running, history, reliability), its last_start, timeout and
   miss_timeout entries and every other job are left unchanged.  A tracked
   job whose installed timestamp did not advance is left unchanged.  The
   step of the monitor is the one that changes run. *)
C23_RescheduleFrame ==
    [][AtTrackedJob /\ run' # run =>
        LET job == Head(run.jobs)
            j == job.id
            row == get_job_info(store, j)
        IN  IF job.installed > self.status[j].installed
            THEN /\ self'.status[j].installed = job.installed
                 /\ self'.status[j].scheduled = parses(row.time)
                 /\ self'.status[j].scheduled =>
                        /\ Has(self'.sched, j)
                        /\ self'.sched[j] = row.time
                 /\ SameButSchedule(self.status[j], self'.status[j])
                 /\ DOMAIN self'.status = DOMAIN self.status
                 /\ \A k \in DOMAIN self.status \ {j} :
                        self'.status[k] = self.status[k]
                 /\ \A k \in DOMAIN self.sched \ {j} :
                        Has(self'.sched, k) /\ self'.sched[k] = self.sched[k]
                 /\ DOMAIN self'.sched \subseteq DOMAIN self.sched \cup {j}
                 /\ OutsideJobs(self') = OutsideJobs(self)
            ELSE self' = self]_vars

(* The reconciliation pass has just re-derived the schedule of a job that
   had started and failed: the edit took its time field away, the
   installed timestamp is the new one, and the status, the running flag,
   the history and the deadline of the start are still there. *)
C23_Witness ==
    /\ run.pc = "diff_job"
    /\ run.jobs = <<>>
    /\ Has(self.status, 1)
    /\ self.status[1].installed = 1
    /\ ~self.status[1].scheduled
    /\ Has(self.sched, 1)
    /\ self.status[1].status = FAIL
    /\ self.status[1].running
    /\ self.status[1].history = <<FAIL>>
    /\ Has(self.timeout, 1)
    /\ Has(self.last_start, 1)

====
